---- MODULE Spec2Model ----
(***************************************************************************)
(* Model of the Index knowledge base (apps/api): the document lifecycle    *)
(* run by KnowledgeService.index_document over the pgvector store, the     *)
(* cascade delete, and the tool-orchestrated chat loop of ChatService.     *)
(*                                                                         *)
(* Text is a sequence of one-character strings.  A dict is a function      *)
(* whose domain is its key set.  A document id (uuid4()[:8]) is a fresh    *)
(* number of DocIds; a chunk id "{doc_id}_{index}" is the pair             *)
(* <<doc_id, index>>.                                                      *)
(***************************************************************************)
EXTENDS Integers, Sequences, FiniteSets, TLC

\* ------------------------------------------------------------------ bounds
MaxDocs == 2
MaxLen == 3
MaxChunkSize == 1
MaxTurns == 2
MaxRounds == 2
MaxBlocks == 2
MaxTextLen == 4
MaxSize == 3
MaxOverlap == 3
MaxRows == 3
MaxTopK == 2
MaxAdds == 2
MaxArray == 2
MaxBatch == 3
MaxLines == 3
MaxSectionSize == 3
MaxCalls == 3

\* first_message[:50]
TitleLimit == 50

\* round(1 - distance, 4): scores are kept in units of 1/10000.
ScoreUnit == 10000

DocIds == 1..MaxDocs
\* An id that no document ever has (a caller-supplied value).
NoSuchDoc == 0

\* ------------------------------------------------------------------- text
Chars == {"a", " "}
Whitespace == {" ", "\n"}

Texts == UNION {[1..n -> Chars] : n \in 0..MaxLen}

Min(a, b) == IF a < b THEN a ELSE b

Max(a, b) == IF a > b THEN a ELSE b

\* Where Python's slicing puts index i in a sequence of length n: a negative
\* index counts from the end, and both ends are clipped.
SliceIndex(i, n) == IF i < 0 THEN Max(n + i, 0) ELSE Min(i, n)

\* Python's text[start:end].
Slice(text, start, end) ==
    SubSeq(text, SliceIndex(start, Len(text)) + 1, SliceIndex(end, Len(text)))

RECURSIVE LStrip(_)
LStrip(text) ==
    IF text # <<>> /\ Head(text) \in Whitespace THEN LStrip(Tail(text)) ELSE text

RECURSIVE RStrip(_)
RStrip(text) ==
    IF text # <<>> /\ text[Len(text)] \in Whitespace
    THEN RStrip(SubSeq(text, 1, Len(text) - 1))
    ELSE text

\* str.strip()
Strip(text) == RStrip(LStrip(text))

\* ---------------------------------------------------------------- chunker
RECURSIVE chunk_loop(_, _, _, _)
chunk_loop(text, start, size, overlap) ==
    IF start < Len(text)
    THEN <<Slice(text, start, start + size)>>
         \o chunk_loop(text, (start + size) - overlap, size, overlap)
    ELSE <<>>

\* TextParser._chunk_text
chunk_text(text, size, overlap) ==
    IF Len(text) <= size THEN <<text>> ELSE chunk_loop(text, 0, size, overlap)

\* A parse that lacks the empty-content check.
TextParser_parse_NoEmptyCheck(content, size, overlap) ==
    chunk_text(Strip(content), size, overlap)

\* TextParser.parse: the chunk contents in emission order (chunk i of the
\* result has index i - 1 and empty chunk-local metadata).
TextParser_parse(content, size, overlap) ==
    IF content = <<>> \/ Strip(content) = <<>>
    THEN <<>>
    ELSE chunk_text(Strip(content), size, overlap)

\* ---------------------------------------------------------- MarkdownParser
\* The number of "#" characters of content from 0-based position p on.
RECURSIVE HashRun(_, _)
HashRun(content, p) ==
    IF p < Len(content) /\ content[p + 1] = "#"
    THEN 1 + HashRun(content, p + 1) ELSE 0

\* The first 0-based position from p on that holds no whitespace.
RECURSIVE SkipSpace(_, _)
SkipSpace(content, p) ==
    IF p < Len(content) /\ content[p + 1] \in Whitespace
    THEN SkipSpace(content, p + 1) ELSE p

\* The end of the line position p is on: the position of its "\n", or the
\* length of content.
RECURSIVE LineEnd(_, _)
LineEnd(content, p) ==
    IF p < Len(content) /\ content[p + 1] # "\n"
    THEN LineEnd(content, p + 1) ELSE p

\* Line 73, ^(#{2,6})\s+(.+?)$ with re.MULTILINE, matched at p: p starts a
\* line, two to six "#" are followed by whitespace (\s matches "\n" too) and
\* then by a character; group 2 runs lazily to the end of that line.
HeaderAt(content, p) ==
    /\ p < Len(content)
    /\ p = 0 \/ content[p] = "\n"
    /\ LET h == HashRun(content, p)
       IN /\ 2 <= h /\ h <= 6
          /\ p + h < Len(content)
          /\ content[p + h + 1] \in Whitespace
          /\ SkipSpace(content, p + h) < Len(content)

HeaderTextStart(content, p) == SkipSpace(content, p + HashRun(content, p))

\* match.end()
HeaderEnd(content, p) == LineEnd(content, HeaderTextStart(content, p))

\* match.group(2)
HeaderText(content, p) ==
    Slice(content, HeaderTextStart(content, p), HeaderEnd(content, p))

\* finditer: the start of the first match at or after position from, or -1.
RECURSIVE NextHeader(_, _)
NextHeader(content, from) ==
    IF from >= Len(content) THEN -1
    ELSE IF HeaderAt(content, from) THEN from
    ELSE NextHeader(content, from + 1)

\* Lines 82-89 and 96-103: a section, kept when it is not empty once stripped.
SectionOf(content, start, end, header) ==
    IF Strip(Slice(content, start, end)) # <<>>
    THEN <<[header |-> header, content |-> Strip(Slice(content, start, end))]>>
    ELSE <<>>

\* Lines 79-103: the loop over the matches, then the final section.
RECURSIVE SplitFrom(_, _, _, _)
SplitFrom(content, from, last_end, current_header) ==
    LET p == NextHeader(content, from)
    IN IF p = -1
       THEN IF last_end < Len(content)
            THEN SectionOf(content, last_end, Len(content), current_header)
            ELSE <<>>
       ELSE (IF p > last_end
             THEN SectionOf(content, last_end, p, current_header)
             ELSE <<>>)
            \o SplitFrom(content, HeaderEnd(content, p), HeaderEnd(content, p),
                         HeaderText(content, p))

\* MarkdownParser._split_by_headers
split_by_headers(content) ==
    LET sections == SplitFrom(content, 0, 0, <<>>)
    IN IF sections = <<>>
       THEN <<[header |-> <<>>, content |-> content]>>
       ELSE sections

\* Line 130: f"## {header}\n\n{chunk}"
WithHeader(header, chunk) ==
    <<"#", "#", " ">> \o header \o <<"\n", "\n">> \o chunk

\* Lines 124-133, for an overlap smaller than the chunk size.
RECURSIVE section_loop(_, _, _, _, _)
section_loop(content, header, start, size, overlap) ==
    IF start < Len(content)
    THEN LET chunk == Slice(content, start, start + size)
         IN <<IF start = 0 /\ header # <<>> THEN WithHeader(header, chunk)
                                            ELSE chunk>>
            \o section_loop(content, header, (start + size) - overlap, size,
                            overlap)
    ELSE <<>>

\* MarkdownParser._chunk_section
chunk_section(section, size, overlap) ==
    IF Len(section.content) <= size
    THEN <<section.content>>
    ELSE section_loop(section.content, section.header, 0, size, overlap)

\* -------------------------------------------------------------- embedding
\* The vector the remote model returns for a text: a function of the text
\* sent, which embed_batch strips first.
Vector(text) == [of |-> text]

\* An embed_batch that returns one vector per text given, the vectors of the
\* kept entries first.
embed_batch_Padded(texts) ==
    LET valid == SelectSeq(texts, LAMBDA t : t # <<>> /\ Strip(t) # <<>>)
    IN [i \in 1..Len(texts) |->
            Vector(Strip(IF i <= Len(valid) THEN valid[i] ELSE texts[i]))]

\* OpenAIEmbeddingProvider.embed_batch, when the API call succeeds.
embed_batch(texts) ==
    LET valid == SelectSeq(texts, LAMBDA t : t # <<>> /\ Strip(t) # <<>>)
    IN [i \in 1..Len(valid) |-> Vector(Strip(valid[i]))]

\* Line 68: the entries that are sent, stripped, in their order.
ValidTexts_NoFilter(texts) == [i \in 1..Len(texts) |-> Strip(texts[i])]

ValidTexts(texts) ==
    LET kept == SelectSeq(texts, LAMBDA t : t # <<>> /\ Strip(t) # <<>>)
    IN [i \in 1..Len(kept) |-> Strip(kept[i])]

\* -------------------------------------------------------------- metadata
EmptyDict == [k \in {} |-> 0]

\* {**a, **b}
Merge(a, b) ==
    [k \in (DOMAIN a) \cup (DOMAIN b) |-> IF k \in DOMAIN b THEN b[k] ELSE a[k]]

\* dict.get(key, default)
Get(d, key, default) == IF key \in DOMAIN d THEN d[key] ELSE default

\* The caller-supplied metadata maps of IndexRequest.metadata.
Metas ==
    {EmptyDict}
    \cup {[k \in {"doc_id"} |-> d] : d \in DocIds}
    \cup {[k \in {"chunk_index", "source"} |->
              IF k = "chunk_index" THEN 7 ELSE "elsewhere"]}

DefaultSource == "unknown"

\* ------------------------------------------------------------------ state
VARIABLES
    chunk_size,     \* KnowledgeService._chunk_size
    chunk_overlap,  \* KnowledgeService._chunk_overlap
    documents,      \* the documents table: id -> row
    chunks,         \* the chunks table: a set of rows
    tasks,          \* the index_document calls, by the doc_id each generates
    del,            \* the delete_document call in progress, if any
    hist            \* per document id, the statuses committed for it, in order

kvars == <<chunk_size, chunk_overlap, documents, chunks, tasks, del, hist>>

\* One call of a parser, run loop iteration by loop iteration.
VARIABLE ck

\* One call of PgvectorStorageProvider.search, with the chunks table it runs on.
VARIABLE sr

\* The last direct call of PgvectorStorageProvider.add.
VARIABLE ad

\* One call of OpenAIEmbeddingProvider.embed_batch.
VARIABLE eb

\* One call of SearchService.search.
VARIABLE ss

\* One call of MarkdownParser.parse.
VARIABLE mp

\* A LocalEmbeddingProvider instance and the calls made on it.
VARIABLE lm


\* The chat service's state, for one conversation.
VARIABLES
    messages,       \* the conversation's rows of the messages table, by created_at
    title,          \* Conversation.title
    turns           \* the stream_chat calls on the conversation

cvars == <<messages, title, turns>>

vars == <<kvars, cvars, ck, sr, ad, eb, ss, mp, lm>>

NoContentMsg == "No content to index"
EmbeddingApiError == "Embedding API error"
IndexErrorMsg == "list index out of range"
ForeignKeyMsg == "violates foreign key constraint"
UniqueMsg == "duplicate key value violates unique constraint"
DimensionMsg == "expected 1024 dimensions"
NoneTypeMsg == "'NoneType' object has no attribute 'status'"
\* A NULL column (Python's None).
None == "None"

\* IndexResult
IndexResult(success, doc_id, chunks_count, message) ==
    [success |-> success, doc_id |-> doc_id,
     chunks_count |-> chunks_count, message |-> message]

\* A call that has not returned.
NoResult == IndexResult(FALSE, NoSuchDoc, 0, None)

IdleTask ==
    [pc |-> "idle", content |-> <<>>, metadata |-> EmptyDict, parsed |-> <<>>,
     embeddings |-> <<>>, exc |-> None, raised_by |-> None, result |-> NoResult,
     embed_calls |-> 0, add_calls |-> 0, stored |-> 0]

IdleDelete == [pc |-> "idle", doc_id |-> NoSuchDoc, returned |-> None, http |-> 0]

\* --------------------------------------------------------- chunker state
\* The texts and the parameters a parser is called with.
ChunkChars == {"a", "b", " "}
ChunkTexts == UNION {[1..n -> ChunkChars] : n \in 0..MaxTextLen}
ChunkSizes == (-1)..MaxSize
ChunkOverlaps == (-1)..MaxOverlap

\* The iterations of the chunking loop that are followed.
MaxChunks == MaxTextLen + 1

IdleChunker ==
    [pc |-> "idle", entry |-> None, content |-> <<>>, text |-> <<>>,
     chunk_size |-> 0, chunk_overlap |-> 0, start |-> 0, chunks |-> <<>>]

\* ---------------------------------------------------------- search state
\* Embeddings with their Euclidean norms (whole numbers, so that cosines are
\* exact fractions).
Vectors ==
    {[x |-> 1, y |-> 0, norm |-> 1], [x |-> -1, y |-> 0, norm |-> 1],
     [x |-> 3, y |-> 4, norm |-> 5], [x |-> 5, y |-> 12, norm |-> 13]}

\* The rows of the chunks table a search runs on: embedding, doc_id, source.
SearchRows == [embedding : Vectors, doc_id : DocIds, source : {None, "s"}]

SearchStores == {rows \in SUBSET SearchRows : Cardinality(rows) <= MaxRows}

\* filter_metadata
Filters ==
    {EmptyDict}
    \cup {[k \in {"doc_id"} |-> d] : d \in DocIds}
    \cup {[k \in {"source"} |-> "s"]}

\* The arrays add is called with directly.
AddIds == UNION {[1..n -> {<<1, 0>>, <<1, 1>>}] : n \in 0..MaxArray}
AddContents == {[i \in 1..n |-> <<"a">>] : n \in 0..MaxArray}
AddEmbeddings == {[i \in 1..n |-> Vector(<<"a">>)] : n \in 0..MaxArray}
AddMetadatas ==
    {<<>>} \cup UNION {[1..n -> {[k \in {"doc_id"} |-> d] : d \in DocIds}] :
                        n \in 1..MaxArray}

\* The texts embed_batch is called with.
BatchEntries == {<<>>, <<" ">>, <<"a">>, <<" ", "b">>}
BatchTexts == UNION {[1..n -> BatchEntries] : n \in 0..MaxBatch}

IdleEmbed ==
    [pc |-> "idle", texts |-> <<>>, valid_texts |-> <<>>, api_calls |-> 0,
     result |-> None]

IdleAdd ==
    [calls |-> 0, ids |-> <<>>, documents |-> <<>>, embeddings |-> <<>>,
     metadatas |-> <<>>, error |-> None]

\* The lines of the Markdown documents parsed.
MdLines ==
    { <<>>, <<"a">>, <<"a", "b">>, <<"#", " ", "t">>, <<"#", "#", " ", "h">>,
      <<"#", "#", "#", " ", "g">>, <<"#", "#">>,
      <<"#", "#", "#", "#", "#", "#", "#", " ", "d">> }

\* The lines joined by "\n".
RECURSIVE JoinLines(_)
JoinLines(lines) ==
    IF lines = <<>> THEN <<>>
    ELSE IF Len(lines) = 1 THEN lines[1]
    ELSE lines[1] \o <<"\n">> \o JoinLines(Tail(lines))

MdDocuments ==
    {JoinLines(lines) : lines \in UNION {[1..n -> MdLines] : n \in 0..MaxLines}}

\* chunk_size and chunk_overlap for which the loop of _chunk_section ends.
MdSizes == {sv \in (1..MaxSectionSize) \X (0..MaxSectionSize) : sv[2] < sv[1]}

IdleMarkdown ==
    [pc |-> "idle", content |-> <<>>, chunk_size |-> 0, chunk_overlap |-> 0,
     sections |-> <<>>, done |-> 0, chunks |-> <<>>, chunk_index |-> 0]

\* LocalEmbeddingProvider.__init__, lines 15-18.  `constructed` counts the
\* SentenceTransformer objects built, and `log` keeps, for each call, the
\* model handle it used or the error it raised and the loads it attempted.
NewLocalProvider ==
    [model |-> None, dimension |-> None, constructed |-> 0, log |-> <<>>]

\* The query strings SearchService.search is called with.
Queries == {<<>>, <<" ">>, <<"a">>, <<" ", "a">>}

IdleService ==
    [pc |-> "idle", query |-> <<>>, rows |-> {}, top_k |-> 0,
     filter_metadata |-> EmptyDict, query_embedding |-> None,
     embed_calls |-> 0, store_calls |-> 0, found |-> <<>>, results |-> <<>>]

IdleSearch ==
    [pc |-> "idle", rows |-> {}, query |-> [x |-> 1, y |-> 0, norm |-> 1],
     top_k |-> 0, filter_metadata |-> EmptyDict, results |-> <<>>]

\* ------------------------------------------------------------ chat state
TurnIds == 1..MaxTurns

\* A message of more than 50 characters.
LongMessage == [i \in 1..(TitleLimit + 1) |-> "a"]

\* ChatRequest.message
UserMessages == {<<"h", "i">>, LongMessage}

\* The content blocks of a model response: a text block (named by its text)
\* or a tool_use block, which has no text attribute.
TextBlocks == {"x", "y"}
Blocks == TextBlocks \cup {"tool_use"}
BlockLists == UNION {[1..n -> Blocks] : n \in 0..MaxBlocks}

\* response.usage
Usages == {[input_tokens |-> 1, output_tokens |-> 2]}

\* What messages.create returns.
Responses ==
    [stop_reason : {"tool_use", "end_turn"}, content : BlockLists, usage : Usages]

NoResponse ==
    [stop_reason |-> None, content |-> <<>>,
     usage |-> [input_tokens |-> 0, output_tokens |-> 0]]

IdleTurn ==
    [pc |-> "idle", message |-> <<>>, history |-> <<>>, response |-> NoResponse,
     calls |-> 0, rounds |-> 0, input_tokens |-> 0, output_tokens |-> 0,
     full_response |-> <<>>, next_block |-> 1, events |-> <<>>,
     raised_at |-> None, usages |-> <<>>]

\* Everything but the two settings: empty tables, no call in progress.
InitState ==
    /\ documents = [d \in {} |-> 0]
    /\ chunks = {}
    /\ tasks = [t \in DocIds |-> IdleTask]
    /\ del = IdleDelete
    /\ hist = [d \in DocIds |-> <<>>]
    /\ messages = <<>>
    /\ title = None
    /\ turns = [u \in TurnIds |-> IdleTurn]
    /\ ck = IdleChunker
    /\ sr = IdleSearch
    /\ ad = IdleAdd
    /\ eb = IdleEmbed
    /\ ss = IdleService
    /\ mp = IdleMarkdown
    /\ lm = NewLocalProvider

Init ==
    /\ chunk_size \in 1..MaxChunkSize
    /\ chunk_overlap \in 0..(chunk_size - 1)
    /\ InitState

\* Settings.chunk_size and Settings.chunk_overlap are any integers the
\* environment gives.
InitConfig ==
    /\ chunk_size \in (-1)..MaxChunkSize
    /\ chunk_overlap \in (-1)..MaxChunkSize
    /\ InitState

\* ------------------------------------------------- the two tables' rows
\* Document(...) as index_document creates it; status and chunk_count not
\* given take the column defaults.
\* The row with status left to the column default.
NewDocument_DefaultStatus ==
    [status |-> "uploading", error_message |-> None, chunk_count |-> 0]

NewDocument == [status |-> "parsing", error_message |-> None, chunk_count |-> 0]

Exists(d) == d \in DOMAIN documents

\* The per-chunk metadata dict index_document builds for chunk number i
\* (index i - 1); the text parser's chunk-local metadata is empty.
ChunkMetadata(doc_id, source, metadata, i) ==
    Merge(Merge([k \in {"doc_id", "source", "chunk_index"} |->
                    CASE k = "doc_id" -> doc_id
                      [] k = "source" -> source
                      [] OTHER -> i - 1],
                metadata),
          EmptyDict)

\* Line 29: metadatas[i] if metadatas else {}.
MetaAt(metadatas, i) == IF metadatas = <<>> THEN EmptyDict ELSE metadatas[i]

\* The Chunk row PgvectorStorageProvider.add builds for position i.
ChunkRow(ids, contents, embeddings, metadatas, i) ==
    [id |-> ids[i],
     content |-> contents[i],
     embedding |-> embeddings[i],
     doc_id |-> Get(MetaAt(metadatas, i), "doc_id", NoSuchDoc),
     source |-> Get(MetaAt(metadatas, i), "source", None),
     chunk_index |-> Get(MetaAt(metadatas, i), "chunk_index", 0),
     metadata_ |-> MetaAt(metadatas, i)]

\* The outcome of PgvectorStorageProvider.add as one transaction: the
\* exception it raises (nothing is committed), or None and the rows it
\* commits.  db_ok is whether the database accepts the vectors.
\* An add into a chunks table without the foreign key on doc_id.
\* Lines 28-33: the loop runs over ids and indexes the other arrays, so it
\* raises when one of them is shorter than ids (a metadatas that is None or
\* empty is not indexed).
ShortArray(ids, contents, embeddings, metadatas) ==
    \/ Len(contents) < Len(ids)
    \/ Len(embeddings) < Len(ids)
    \/ metadatas # <<>> /\ Len(metadatas) < Len(ids)

\* The primary key of the chunks table: an id given twice, or already stored.
DuplicateKey(ids) ==
    \/ \E i, j \in 1..Len(ids) : i # j /\ ids[i] = ids[j]
    \/ \E i \in 1..Len(ids) : \E c \in chunks : c.id = ids[i]

AddError_NoForeignKey(ids, contents, embeddings, metadatas, db_ok) ==
    IF ShortArray(ids, contents, embeddings, metadatas) THEN IndexErrorMsg
    ELSE IF DuplicateKey(ids) THEN UniqueMsg
    ELSE IF ~db_ok THEN DimensionMsg
    ELSE None

AddError(ids, contents, embeddings, metadatas, db_ok) ==
    IF ShortArray(ids, contents, embeddings, metadatas) THEN IndexErrorMsg
    ELSE IF DuplicateKey(ids) THEN UniqueMsg
    ELSE IF \E i \in 1..Len(ids) :
                ~Exists(Get(MetaAt(metadatas, i), "doc_id", NoSuchDoc))
         THEN ForeignKeyMsg
    ELSE IF ~db_ok THEN DimensionMsg
    ELSE None

AddRows(ids, contents, embeddings, metadatas) ==
    {ChunkRow(ids, contents, embeddings, metadatas, i) : i \in 1..Len(ids)}

\* PgvectorStorageProvider.count
count == Cardinality(chunks)

\* ------------------------------------------------------- index_document
InFlightPcs == {"parse", "embed", "store", "ready", "handler"}

\* What a call keeps once it has left the try block's body: its position, what
\* it raised or returned, and the calls it made.
Leave(t, pc, msg, by, result) ==
    [IdleTask EXCEPT !.pc = pc, !.exc = msg, !.raised_by = by, !.result = result,
                     !.embed_calls = tasks[t].embed_calls,
                     !.add_calls = tasks[t].add_calls,
                     !.stored = tasks[t].stored]

Raise(t, msg, by) ==
    tasks' = [tasks EXCEPT ![t] = Leave(t, "handler", msg, by, NoResult)]

\* The status a step commits for document t, with the other columns it sets.
SetStatus(t, status, message, chunk_count) ==
    /\ documents' = [documents EXCEPT ![t] =
            [status |-> status, error_message |-> message, chunk_count |-> chunk_count]]
    /\ hist' = [hist EXCEPT ![t] = Append(@, status)]

\* Lines 52-65: a fresh id, and the Document row committed.
IndexCreate(t, content, metadata) ==
    /\ tasks[t].pc = "idle"
    /\ \A u \in DocIds : u < t => tasks[u].pc # "idle"
    /\ documents' = documents @@ (t :> NewDocument)
    /\ hist' = [hist EXCEPT ![t] = Append(@, NewDocument.status)]
    /\ tasks' = [tasks EXCEPT ![t].pc = "parse", ![t].content = content,
                              ![t].metadata = metadata]
    /\ UNCHANGED <<chunk_size, chunk_overlap, chunks, del, cvars, ck, sr, ad, eb, ss, mp, lm>>

\* Lines 68-88: parse, then either the empty-parse result or status indexing.
IndexParse(t) ==
    /\ tasks[t].pc = "parse"
    /\ LET parsed == TextParser_parse(tasks[t].content, chunk_size, chunk_overlap)
       IN IF ~Exists(t)
          THEN /\ Raise(t, NoneTypeMsg, "status")
               /\ UNCHANGED <<documents, hist>>
          ELSE IF parsed = <<>>
          THEN /\ SetStatus(t, "error", NoContentMsg, documents[t].chunk_count)
               /\ tasks' = [tasks EXCEPT ![t] = Leave(t, "returned", None, None,
                                    IndexResult(FALSE, t, 0, NoContentMsg))]
          ELSE /\ SetStatus(t, "indexing", documents[t].error_message,
                             documents[t].chunk_count)
               /\ tasks' = [tasks EXCEPT ![t].pc = "embed", ![t].content = <<>>,
                                         ![t].parsed = parsed]
    /\ UNCHANGED <<chunk_size, chunk_overlap, chunks, del, cvars, ck, sr, ad, eb, ss, mp, lm>>

\* Lines 90-92: the embedding call, which the remote API may fail.
IndexEmbed(t, api_ok) ==
    /\ tasks[t].pc = "embed"
    /\ IF api_ok
       THEN tasks' = [tasks EXCEPT ![t].pc = "store",
                        ![t].embeddings = embed_batch(tasks[t].parsed),
                        ![t].embed_calls = @ + 1]
       ELSE tasks' = [tasks EXCEPT ![t] =
                        [Leave(t, "handler", EmbeddingApiError, "embed", NoResult)
                            EXCEPT !.embed_calls = @ + 1]]
    /\ UNCHANGED <<chunk_size, chunk_overlap, documents, chunks, del, hist, cvars, ck, sr, ad, eb, ss, mp, lm>>

\* Lines 94-112: ids, metadatas and the add transaction.
IndexStore(t, db_ok) ==
    /\ tasks[t].pc = "store"
    /\ LET parsed == tasks[t].parsed
           ids == [i \in 1..Len(parsed) |-> <<t, i - 1>>]
           metadatas == [i \in 1..Len(parsed) |->
                            ChunkMetadata(t, DefaultSource, tasks[t].metadata, i)]
           err == AddError(ids, parsed, tasks[t].embeddings, metadatas, db_ok)
       IN IF err = None
          THEN /\ chunks' = chunks \cup AddRows(ids, parsed, tasks[t].embeddings, metadatas)
               /\ tasks' = [tasks EXCEPT ![t].pc = "ready", ![t].add_calls = @ + 1,
                                         ![t].stored =
                                Cardinality(AddRows(ids, parsed, tasks[t].embeddings,
                                                    metadatas))]
          ELSE /\ chunks' = chunks
               /\ tasks' = [tasks EXCEPT ![t] =
                        [Leave(t, "handler", err, "add", NoResult)
                            EXCEPT !.add_calls = @ + 1]]
    /\ UNCHANGED <<chunk_size, chunk_overlap, documents, del, hist, cvars, ck, sr, ad, eb, ss, mp, lm>>

\* A mark-ready step that raises inside the try block after its commit.
IndexMarkReady_ThenRaises(t) ==
    /\ tasks[t].pc = "ready"
    /\ IF Exists(t)
       THEN /\ SetStatus(t, "ready", documents[t].error_message, Len(tasks[t].parsed))
            /\ Raise(t, "logging failed", "status")
       ELSE /\ Raise(t, NoneTypeMsg, "status")
            /\ UNCHANGED <<documents, hist>>
    /\ UNCHANGED <<chunk_size, chunk_overlap, chunks, del, cvars, ck, sr, ad, eb, ss, mp, lm>>

\* Lines 114-128: status ready with chunk_count, and the success result.
IndexMarkReady(t) ==
    /\ tasks[t].pc = "ready"
    /\ IF Exists(t)
       THEN /\ SetStatus(t, "ready", documents[t].error_message, Len(tasks[t].parsed))
            /\ tasks' = [tasks EXCEPT ![t] = Leave(t, "returned", None, None,
                    IndexResult(TRUE, t, Len(tasks[t].parsed), "Successfully indexed"))]
       ELSE /\ Raise(t, NoneTypeMsg, "status")
            /\ UNCHANGED <<documents, hist>>
    /\ UNCHANGED <<chunk_size, chunk_overlap, chunks, del, cvars, ck, sr, ad, eb, ss, mp, lm>>

\* A handler that swallows the exception.
HandlerExit_Swallowed == "returned"

\* Line 138: the handler re-raises.
HandlerExit == "raised"

\* Lines 130-138: record the failure on the row if it is still there, re-raise.
IndexHandleError(t) ==
    /\ tasks[t].pc = "handler"
    /\ IF Exists(t)
       THEN SetStatus(t, "error", tasks[t].exc, documents[t].chunk_count)
       ELSE UNCHANGED <<documents, hist>>
    /\ tasks' = [tasks EXCEPT ![t].pc = HandlerExit]
    /\ UNCHANGED <<chunk_size, chunk_overlap, chunks, del, cvars, ck, sr, ad, eb, ss, mp, lm>>

\* The process dies in the middle of a call: nothing more of it runs.
IndexCrash(t) ==
    /\ tasks[t].pc \in InFlightPcs
    /\ tasks' = [tasks EXCEPT ![t] = [IdleTask EXCEPT !.pc = "crashed"]]
    /\ UNCHANGED <<chunk_size, chunk_overlap, documents, chunks, del, hist, cvars, ck, sr, ad, eb, ss, mp, lm>>

\* ------------------------------------------------------ delete_document
\* The rows left by the committed transaction of delete_by_doc_id(d): the
\* chunks deleted by doc_id (and by the foreign key's cascade), and the
\* document.
\* A delete that matches chunks by their id prefix, not by the doc_id column.
ChunksAfterDelete_ById(d) == {c \in chunks : c.id[1] # d}

ChunksAfterDelete(d) == {c \in chunks : c.doc_id # d}

DocumentsAfterDelete(d) == [x \in (DOMAIN documents) \ {d} |-> documents[x]]

\* KnowledgeService.delete_document's return value.
DeleteReturn(d) == "True"

\* The route: 404 when the service reports failure.
DeleteStatusCode(success) == IF success # "True" THEN 404 ELSE 200

\* delete_by_doc_id, line 96: the chunk delete, inside the open transaction.
DeleteBegin(d) ==
    /\ del.pc = "idle"
    /\ del' = [pc |-> "chunks_deleted", doc_id |-> d, returned |-> None, http |-> 0]
    /\ UNCHANGED <<chunk_size, chunk_overlap, documents, chunks, tasks, hist, cvars, ck, sr, ad, eb, ss, mp, lm>>

\* Lines 97-98, and the return through the route: the document delete and
\* the commit, which makes both deletes visible at once.
DeleteCommit ==
    /\ del.pc = "chunks_deleted"
    /\ chunks' = ChunksAfterDelete(del.doc_id)
    /\ documents' = DocumentsAfterDelete(del.doc_id)
    /\ del' = [IdleDelete EXCEPT !.returned = DeleteReturn(del.doc_id),
                                 !.http = DeleteStatusCode(DeleteReturn(del.doc_id))]
    /\ UNCHANGED <<chunk_size, chunk_overlap, tasks, hist, cvars, ck, sr, ad, eb, ss, mp, lm>>

\* The call is interrupted before the commit: the transaction rolls back.
DeleteInterrupt ==
    /\ del.pc = "chunks_deleted"
    /\ del' = IdleDelete
    /\ UNCHANGED <<chunk_size, chunk_overlap, documents, chunks, tasks, hist, cvars, ck, sr, ad, eb, ss, mp, lm>>

\* ------------------------------------------------- ChatService.stream_chat
\* Each action runs one stream_chat call from one suspension point (an await
\* or a yield) to the next.

\* Message(id=..., role=..., content=..., input_tokens=..., output_tokens=...).
\* The id (uuid4()[:8], drawn by the call) is the pair of the call and the role.
MessageRow(u, role, content, input_tokens, output_tokens) ==
    [id |-> <<u, role>>, role |-> role, content |-> content,
     input_tokens |-> input_tokens, output_tokens |-> output_tokens]

Event(type, text, calls) == [type |-> type, text |-> text, calls |-> calls]

Emit(turn, event) == [turn EXCEPT !.events = Append(@, event)]

\* Lines 166-168: the handler of the try block yields one error event and
\* the generator ends.
\* `at` records the call that raised.
ChatFail(turn, at) ==
    [Emit(turn, Event("error", None, 0)) EXCEPT
        !.pc = "failed", !.response = NoResponse, !.history = <<>>, !.next_block = 1,
        !.calls = 0, !.input_tokens = 0, !.output_tokens = 0,
        !.full_response = <<>>, !.raised_at = at, !.usages = <<>>]

\* An exception outside the try block (lines 38-59) leaves the generator.
ChatRaise(turn, at) ==
    [turn EXCEPT !.pc = "raised", !.history = <<>>, !.raised_at = at]

\* Line 164.
ChatDone(turn) ==
    [Emit(turn, Event("done", None, 0)) EXCEPT !.pc = "done", !.history = <<>>]

\* Lines 38-47.
ChatSaveUser(u, message, db_ok) ==
    /\ turns[u].pc = "idle"
    /\ IF db_ok
       THEN /\ messages' = Append(messages, MessageRow(u, "user", message, None, None))
            /\ turns' = [turns EXCEPT ![u] = [@ EXCEPT !.pc = "load", !.message = message]]
       ELSE /\ turns' = [turns EXCEPT ![u] = ChatRaise([@ EXCEPT !.message = message], "save_user")]
            /\ UNCHANGED messages
    /\ UNCHANGED <<title, kvars, ck, sr, ad, eb, ss, mp, lm>>

\* Lines 49-59.
ChatLoadHistory(u, db_ok) ==
    /\ turns[u].pc = "load"
    /\ turns' = [turns EXCEPT ![u] =
            IF db_ok
            THEN [@ EXCEPT !.pc = "call",
                           !.history = [i \in 1..Len(messages) |-> messages[i].role]]
            ELSE ChatRaise(@, "load_history")]
    /\ UNCHANGED <<messages, title, kvars, ck, sr, ad, eb, ss, mp, lm>>

HasToolUse(content) == \E i \in 1..Len(content) : content[i] = "tool_use"

\* A model call has returned `response`: the usage is added up, the loop
\* condition of line 97 chooses what runs next, and in the loop the tool_use
\* block is looked up (lines 98-100: next() raises when there is none).
\* A create that keeps the usage of the last call only.
AfterCreate_LastUsage(turn, response) ==
    LET counted == [turn EXCEPT
                        !.calls = @ + 1,
                        !.usages = Append(@, response.usage),
                        !.input_tokens = response.usage.input_tokens,
                        !.output_tokens = response.usage.output_tokens]
    IN IF response.stop_reason # "tool_use"
       THEN [counted EXCEPT !.pc = "text", !.response = response, !.history = <<>>]
       ELSE IF HasToolUse(response.content)
       THEN [counted EXCEPT !.pc = "search", !.response = NoResponse]
       ELSE ChatFail(counted, "next")

\* A loop of one round at most: after it, the answer is taken as the final one.
AfterCreate_Capped(turn, response) ==
    LET counted == [turn EXCEPT
                        !.calls = @ + 1,
                        !.usages = Append(@, response.usage),
                        !.input_tokens = @ + response.usage.input_tokens,
                        !.output_tokens = @ + response.usage.output_tokens]
    IN IF response.stop_reason # "tool_use" \/ turn.rounds >= 1
       THEN [counted EXCEPT !.pc = "text", !.response = response, !.history = <<>>]
       ELSE IF HasToolUse(response.content)
       THEN [counted EXCEPT !.pc = "search", !.response = NoResponse]
       ELSE ChatFail(counted, "next")

\* Lines 93-100 and 139-140.  `usages` is a history of the usage of each call.
AfterCreate(turn, response) ==
    LET counted == [turn EXCEPT
                        !.calls = @ + 1,
                        !.usages = Append(@, response.usage),
                        !.input_tokens = @ + response.usage.input_tokens,
                        !.output_tokens = @ + response.usage.output_tokens]
    IN IF response.stop_reason # "tool_use"
       THEN [counted EXCEPT !.pc = "text", !.response = response, !.history = <<>>]
       ELSE IF HasToolUse(response.content)
       THEN [counted EXCEPT !.pc = "search", !.response = NoResponse]
       ELSE ChatFail(counted, "next")

\* The model asks for at most MaxRounds tool rounds in one turn.
MayReturn(turn, response) ==
    response.stop_reason = "tool_use" => turn.rounds < MaxRounds

\* Lines 80-94 and the test of line 97.
ChatFirstCall(u, api_ok, response) ==
    /\ turns[u].pc = "call"
    /\ MayReturn(turns[u], response)
    /\ turns' = [turns EXCEPT ![u] =
            IF api_ok THEN AfterCreate(@, response) ELSE ChatFail(@, "create")]
    /\ UNCHANGED <<messages, title, kvars, ck, sr, ad, eb, ss, mp, lm>>

\* A tool round that yields no source event.
ChatToolRound_NoSource(u, search_ok) ==
    /\ turns[u].pc = "search"
    /\ turns' = [turns EXCEPT ![u] =
            IF search_ok
            THEN [@ EXCEPT !.pc = "reinvoke", !.rounds = @ + 1]
            ELSE ChatFail(@, "search")]
    /\ UNCHANGED <<messages, title, kvars, ck, sr, ad, eb, ss, mp, lm>>

\* Lines 103-111: the search runs and the source event is yielded.
ChatToolRound(u, search_ok) ==
    /\ turns[u].pc = "search"
    /\ turns' = [turns EXCEPT ![u] =
            IF search_ok
            THEN [Emit(@, Event("source", None, @.calls)) EXCEPT
                    !.pc = "reinvoke", !.rounds = @ + 1]
            ELSE ChatFail(@, "search")]
    /\ UNCHANGED <<messages, title, kvars, ck, sr, ad, eb, ss, mp, lm>>

\* Lines 113-140 and the test of line 97.
ChatReinvoke(u, api_ok, response) ==
    /\ turns[u].pc = "reinvoke"
    /\ MayReturn(turns[u], response)
    /\ turns' = [turns EXCEPT ![u] =
            IF api_ok
            THEN AfterCreate([@ EXCEPT !.history = @ \o <<"assistant", "user">>],
                             response)
            ELSE ChatFail(@, "create")]
    /\ UNCHANGED <<messages, title, kvars, ck, sr, ad, eb, ss, mp, lm>>

HasText(block) == block \in TextBlocks

\* The blocks of `content` from position i on that the loop of lines 143-146
\* yields.
TextLeft(content, i) == {j \in i..Len(content) : HasText(content[j])}

\* Lines 143-146: the loop runs to its next text block and yields it.
ChatEmitText(u) ==
    /\ turns[u].pc = "text"
    /\ TextLeft(turns[u].response.content, turns[u].next_block) # {}
    /\ LET content == turns[u].response.content
           left == TextLeft(content, turns[u].next_block)
           j == CHOOSE n \in left : \A m \in left : n <= m
       IN turns' = [turns EXCEPT ![u] =
                [Emit(@, Event("text", content[j], 0)) EXCEPT
                    !.full_response = Append(@, content[j]),
                    !.next_block = j + 1]]
    /\ UNCHANGED <<messages, title, kvars, ck, sr, ad, eb, ss, mp, lm>>

\* Lines 143-159: the loop finds no further text block and the assistant
\* message is saved.
ChatSaveAssistant(u, db_ok) ==
    /\ turns[u].pc = "text"
    /\ TextLeft(turns[u].response.content, turns[u].next_block) = {}
    /\ IF db_ok
       THEN /\ messages' = Append(messages,
                    MessageRow(u, "assistant", turns[u].full_response,
                               turns[u].input_tokens, turns[u].output_tokens))
            /\ turns' = [turns EXCEPT ![u] =
                    [@ EXCEPT !.pc = "title", !.response = NoResponse, !.next_block = 1]]
       ELSE /\ turns' = [turns EXCEPT ![u] = ChatFail(@, "save_assistant")]
            /\ UNCHANGED messages
    /\ UNCHANGED <<title, kvars, ck, sr, ad, eb, ss, mp, lm>>

Ellipsis == <<".", ".", ".">>

\* Lines 176-178.
GenerateTitle(first_message) ==
    Strip(Slice(first_message, 0, TitleLimit))
        \o (IF Len(first_message) > TitleLimit THEN Ellipsis ELSE <<>>)

\* `not conv.title`: no title, or the empty one.
NoTitle(t) == t = None \/ t = <<>>

\* Lines 162, 172-174: the conversation is read; a conversation with a title
\* is left alone and the done event of line 164 follows.
ChatTitleRead(u, db_ok) ==
    /\ turns[u].pc = "title"
    /\ turns' = [turns EXCEPT ![u] =
            IF ~db_ok THEN ChatFail(@, "title")
            ELSE IF NoTitle(title) THEN [@ EXCEPT !.pc = "title_commit"]
            ELSE ChatDone(@)]
    /\ UNCHANGED <<messages, title, kvars, ck, sr, ad, eb, ss, mp, lm>>

\* Lines 176-179 and 164: the title is written and committed, then the done
\* event is yielded.
ChatTitleCommit(u, db_ok) ==
    /\ turns[u].pc = "title_commit"
    /\ IF db_ok
       THEN /\ title' = GenerateTitle(turns[u].message)
            /\ turns' = [turns EXCEPT ![u] = ChatDone(@)]
       ELSE /\ turns' = [turns EXCEPT ![u] = ChatFail(@, "title")]
            /\ UNCHANGED title
    /\ UNCHANGED <<messages, kvars, ck, sr, ad, eb, ss, mp, lm>>

\* ------------------------------------------------------------ parser calls
\* ParserProvider.__init__ keeps chunk_size and chunk_overlap as given.

\* _chunk_text without the test of line 51.
EnterChunkText_NoShortCut(call, text) ==
    [call EXCEPT !.pc = "loop", !.text = text, !.start = 0, !.chunks = <<>>]

\* _chunk_text, lines 51-55: a text that fits is returned whole, a longer one
\* enters the loop.
EnterChunkText(call, text) ==
    IF Len(text) <= call.chunk_size
    THEN [call EXCEPT !.pc = "returned", !.text = text, !.chunks = <<text>>]
    ELSE [call EXCEPT !.pc = "loop", !.text = text, !.start = 0, !.chunks = <<>>]

\* TextParser.parse, lines 19-23, up to the loop of _chunk_text.
ParseCall(content, size, overlap) ==
    /\ ck.pc = "idle"
    /\ LET call == [ck EXCEPT !.entry = "parse", !.content = content,
                              !.chunk_size = size, !.chunk_overlap = overlap]
       IN ck' = IF content = <<>> \/ Strip(content) = <<>>
                THEN [call EXCEPT !.pc = "returned"]
                ELSE EnterChunkText(call, Strip(content))
    /\ UNCHANGED <<kvars, cvars, sr, ad, eb, ss, mp, lm>>

\* TextParser._chunk_text called on a text as it is.
ChunkTextCall(text, size, overlap) ==
    /\ ck.pc = "idle"
    /\ ck' = EnterChunkText([ck EXCEPT !.entry = "_chunk_text", !.content = text,
                                       !.chunk_size = size, !.chunk_overlap = overlap],
                            text)
    /\ UNCHANGED <<kvars, cvars, sr, ad, eb, ss, mp, lm>>

\* A loop that steps by the chunk size, without the overlap.
ChunkLoop_NoOverlap ==
    /\ ck.pc = "loop"
    /\ IF ck.start < Len(ck.text)
       THEN /\ Len(ck.chunks) < MaxChunks
            /\ LET end == ck.start + ck.chunk_size
               IN ck' = [ck EXCEPT
                            !.chunks = Append(@, Slice(ck.text, ck.start, end)),
                            !.start = end]
       ELSE ck' = [ck EXCEPT !.pc = "returned"]
    /\ UNCHANGED <<kvars, cvars, sr, ad, eb, ss, mp, lm>>

\* Lines 57-63: one test of the loop condition, and one iteration or the
\* return.  The loop is followed for MaxChunks iterations.
ChunkLoop ==
    /\ ck.pc = "loop"
    /\ IF ck.start < Len(ck.text)
       THEN /\ Len(ck.chunks) < MaxChunks
            /\ LET end == ck.start + ck.chunk_size
               IN ck' = [ck EXCEPT
                            !.chunks = Append(@, Slice(ck.text, ck.start, end)),
                            !.start = end - ck.chunk_overlap]
       ELSE ck' = [ck EXCEPT !.pc = "returned"]
    /\ UNCHANGED <<kvars, cvars, sr, ad, eb, ss, mp, lm>>

\* ------------------------------------- OpenAIEmbeddingProvider.embed_batch
\* Lines 63-72: the two early returns, else the entries kept for the API.
EmbedBatchCall(texts) ==
    /\ eb.pc = "idle"
    /\ eb' = IF texts = <<>> \/ ValidTexts(texts) = <<>>
             THEN [eb EXCEPT !.pc = "returned", !.texts = texts, !.result = <<>>]
             ELSE [eb EXCEPT !.pc = "call_api", !.texts = texts,
                             !.valid_texts = ValidTexts(texts)]
    /\ UNCHANGED <<kvars, cvars, ck, sr, ad, ss, mp, lm>>

\* Lines 74-98: one POST of the whole batch; any status but 200 raises, and
\* the embeddings of the response are returned in the order of its data.
EmbedCallApi(api_ok) ==
    /\ eb.pc = "call_api"
    /\ eb' = IF api_ok
             THEN [eb EXCEPT !.pc = "returned", !.api_calls = @ + 1,
                      !.result = [i \in 1..Len(eb.valid_texts) |->
                                        Vector(eb.valid_texts[i])]]
             ELSE [eb EXCEPT !.pc = "raised", !.api_calls = @ + 1]
    /\ UNCHANGED <<kvars, cvars, ck, sr, ad, ss, mp, lm>>

\* ---------------------------------------------- PgvectorStorageProvider.add
\* Lines 19-40, called directly with any arrays, as one transaction.
StoreAdd(ids, documents_, embeddings, metadatas, db_ok) ==
    /\ ad.calls < MaxAdds
    /\ LET err == AddError(ids, documents_, embeddings, metadatas, db_ok)
       IN /\ ad' = [calls |-> ad.calls + 1, ids |-> ids, documents |-> documents_,
                    embeddings |-> embeddings, metadatas |-> metadatas,
                    error |-> err]
          /\ chunks' = IF err = None
                       THEN chunks \cup AddRows(ids, documents_, embeddings, metadatas)
                       ELSE chunks
    /\ UNCHANGED <<chunk_size, chunk_overlap, documents, tasks, del, hist,
                   cvars, ck, sr, eb, ss, mp, lm>>

\* ------------------------------------------- PgvectorStorageProvider.search
Dot(a, b) == a.x * b.x + a.y * b.y

\* a is at most as far from q as b is, by cosine distance
\* (1 - Dot/(norm * norm)).
NotFarther(q, a, b) == Dot(q, a) * b.norm >= Dot(q, b) * a.norm

\* Python's round() of the fraction n/d (d > 0) to a whole number: to the
\* nearest, a tie to the even one.
RoundDiv(n, d) ==
    LET quot == n \div d
        rest == n % d
    IN IF 2 * rest < d THEN quot
       ELSE IF 2 * rest > d THEN quot + 1
       ELSE IF quot % 2 = 0 THEN quot ELSE quot + 1

\* round(1 - distance, 4), in units of 1/ScoreUnit.
Score(q, v) == RoundDiv(ScoreUnit * Dot(q, v), q.norm * v.norm)

\* Lines 53-55: only the doc_id key of the filter narrows the query.
Candidates(rows, filter_metadata) ==
    IF "doc_id" \in DOMAIN filter_metadata
    THEN {r \in rows : r.doc_id = filter_metadata["doc_id"]}
    ELSE rows

\* Line 57: ORDER BY distance LIMIT top_k.  Rows at the same distance come
\* in any order.
Ranked(cand, q, top_k) ==
    LET n == Min(top_k, Cardinality(cand))
    IN {s \in [1..n -> cand] :
            /\ \A i, j \in 1..n : i < j =>
                    s[i] # s[j] /\ NotFarther(q, s[i].embedding, s[j].embedding)
            /\ \A c \in cand : (\A i \in 1..n : s[i] # c) =>
                    \A i \in 1..n : NotFarther(q, s[i].embedding, c.embedding)}

\* Lines 60-68.
SearchResult(row, q) ==
    [id |-> row, score |-> Score(q, row.embedding),
     metadata |-> [k \in {"doc_id", "source"} |->
                     IF k = "doc_id" THEN row.doc_id
                     ELSE IF row.source = None THEN "" ELSE row.source]]

StoreSearch(rows, q, top_k, filter_metadata) ==
    /\ sr.pc = "idle"
    /\ \E s \in Ranked(Candidates(rows, filter_metadata), q, top_k) :
            sr' = [pc |-> "returned", rows |-> rows, query |-> q, top_k |-> top_k,
                   filter_metadata |-> filter_metadata,
                   results |-> [i \in 1..Len(s) |-> SearchResult(s[i], q)]]
    /\ UNCHANGED <<kvars, cvars, ck, ad, eb, ss, mp, lm>>

\* ------------------------------------------------- MarkdownParser.parse
\* Lines 21-34: the empty result for a blank content, else the sections of
\* the stripped content.
MarkdownParseCall(content, size, overlap) ==
    /\ mp.pc = "idle"
    /\ mp' = IF content = <<>> \/ Strip(content) = <<>>
             THEN [mp EXCEPT !.pc = "returned", !.content = content,
                             !.chunk_size = size, !.chunk_overlap = overlap]
             ELSE [mp EXCEPT !.pc = "sections", !.content = content,
                             !.chunk_size = size, !.chunk_overlap = overlap,
                             !.sections = split_by_headers(Strip(content))]
    /\ UNCHANGED <<kvars, cvars, ck, sr, ad, eb, ss, lm>>

\* Lines 36-46: one section chunked and its chunks appended with the running
\* index, or the return after the last section.  `done` counts the sections
\* already chunked.
MarkdownChunkSection ==
    /\ mp.pc = "sections"
    /\ IF mp.done < Len(mp.sections)
       THEN LET section == mp.sections[mp.done + 1]
                section_chunks ==
                    chunk_section(section, mp.chunk_size, mp.chunk_overlap)
            IN mp' = [mp EXCEPT
                        !.done = @ + 1,
                        !.chunk_index = @ + Len(section_chunks),
                        !.chunks = @ \o
                            [i \in 1..Len(section_chunks) |->
                                [content |-> section_chunks[i],
                                 index |-> mp.chunk_index + i - 1,
                                 metadata |-> [k \in {"section"} |->
                                                    section.header]]]]
       ELSE mp' = [mp EXCEPT !.pc = "returned"]
    /\ UNCHANGED <<kvars, cvars, ck, sr, ad, eb, ss, lm>>

\* ------------------------------------------------- LocalEmbeddingProvider
\* The n-th SentenceTransformer object built.
Handle(n) == <<"SentenceTransformer", n>>

\* A load that builds a model on every call.
load_model_NoGuard(p, import_ok) ==
    IF import_ok
    THEN [p |-> [p EXCEPT !.model = Handle(p.constructed + 1),
                          !.dimension = "dimension",
                          !.constructed = @ + 1],
          raised |-> FALSE, attempts |-> 1]
    ELSE [p |-> p, raised |-> TRUE, attempts |-> 1]

\* _load_model, lines 20-34: the provider after the call, whether it raised,
\* and the loads it attempted.  The handle of a model is its number.
load_model(p, import_ok) ==
    IF p.model = None
    THEN IF import_ok
         THEN [p |-> [p EXCEPT !.model = Handle(p.constructed + 1),
                               !.dimension = "dimension",
                               !.constructed = @ + 1],
               raised |-> FALSE, attempts |-> 1]
         ELSE [p |-> p, raised |-> TRUE, attempts |-> 1]
    ELSE [p |-> p, raised |-> FALSE, attempts |-> 0]

LogCall(p, call, used, error, attempts) ==
    [p EXCEPT !.log = Append(@, [call |-> call, used |-> used, error |-> error,
                                 attempts |-> attempts])]

\* The call loads the model and, when that succeeded, uses it.
LoadAndUse(call, import_ok) ==
    LET loaded == load_model(lm, import_ok)
    IN lm' = IF loaded.raised
             THEN LogCall(loaded.p, call, None, "RuntimeError", loaded.attempts)
             ELSE LogCall(loaded.p, call, loaded.p.model, None, loaded.attempts)

\* embed, lines 46-53.  The body has no await: the call runs as one step.
LocalEmbed(blank, import_ok) ==
    /\ Len(lm.log) < MaxCalls
    /\ IF blank
       THEN lm' = LogCall(lm, "embed", None, "ValueError", 0)
       ELSE LoadAndUse("embed", import_ok)
    /\ UNCHANGED <<kvars, cvars, ck, sr, ad, eb, ss, mp>>

\* embed_batch, lines 55-66.
LocalEmbedBatch(blank, import_ok) ==
    /\ Len(lm.log) < MaxCalls
    /\ IF blank
       THEN lm' = LogCall(lm, "embed_batch", None, None, 0)
       ELSE LoadAndUse("embed_batch", import_ok)
    /\ UNCHANGED <<kvars, cvars, ck, sr, ad, eb, ss, mp>>

\* dimension, lines 40-44.
LocalDimension(import_ok) ==
    /\ Len(lm.log) < MaxCalls
    /\ IF lm.dimension = None
       THEN LoadAndUse("dimension", import_ok)
       ELSE lm' = LogCall(lm, "dimension", lm.model, None, 0)
    /\ UNCHANGED <<kvars, cvars, ck, sr, ad, eb, ss, mp>>

\* ------------------------------------------------- SearchService.search
\* Lines 41-42: a blank query returns [] at once.
ServiceSearchCall(query, rows, top_k, filter_metadata) ==
    /\ ss.pc = "idle"
    /\ ss' = IF query = <<>> \/ Strip(query) = <<>>
             THEN [ss EXCEPT !.pc = "returned", !.query = query, !.rows = rows]
             ELSE [ss EXCEPT !.pc = "embed", !.query = query, !.rows = rows,
                             !.top_k = top_k,
                             !.filter_metadata = filter_metadata]
    /\ UNCHANGED <<kvars, cvars, ck, sr, ad, eb, mp, lm>>

\* Line 44: the embedding of the stripped query, whatever the provider
\* returns for it.
ServiceSearchEmbed(q) ==
    /\ ss.pc = "embed"
    /\ ss' = [ss EXCEPT !.pc = "store", !.query_embedding = q,
                        !.embed_calls = @ + 1]
    /\ UNCHANGED <<kvars, cvars, ck, sr, ad, eb, mp, lm>>

\* Lines 52-59: the item built from one result of the store.
SearchResultItem(r) ==
    [source |-> Get(r.metadata, "source", "unknown"), score |-> r.score,
     metadata |-> r.metadata]

\* Lines 46-60: the store's search, then one item per result.  `found` keeps
\* the results of the store.
ServiceSearchStore ==
    /\ ss.pc = "store"
    /\ \E s \in Ranked(Candidates(ss.rows, ss.filter_metadata),
                       ss.query_embedding, ss.top_k) :
        LET found == [i \in 1..Len(s) |-> SearchResult(s[i], ss.query_embedding)]
        IN ss' = [ss EXCEPT !.pc = "returned", !.store_calls = @ + 1,
                     !.found = found,
                     !.results = [i \in 1..Len(found) |->
                                        SearchResultItem(found[i])]]
    /\ UNCHANGED <<kvars, cvars, ck, sr, ad, eb, mp, lm>>

\* ---------------------------------------------------------- specification
Next ==
    \/ \E t \in DocIds, content \in Texts, metadata \in Metas :
            IndexCreate(t, content, metadata)
    \/ \E t \in DocIds : IndexParse(t)
    \/ \E t \in DocIds, api_ok \in BOOLEAN : IndexEmbed(t, api_ok)
    \/ \E t \in DocIds, db_ok \in BOOLEAN : IndexStore(t, db_ok)
    \/ \E t \in DocIds : IndexMarkReady(t)
    \/ \E t \in DocIds : IndexHandleError(t)
    \/ \E t \in DocIds : IndexCrash(t)
    \/ \E d \in DocIds \cup {NoSuchDoc} : DeleteBegin(d)
    \/ DeleteCommit
    \/ DeleteInterrupt

Spec == Init /\ [][Next]_vars

\* The calls handled one at a time: a call starts only when no other call is
\* in progress.
Sequential ==
    Cardinality({t \in DocIds : tasks[t].pc \in InFlightPcs})
        + (IF del.pc = "idle" THEN 0 ELSE 1) <= 1

NextSeq ==
    \/ \E t \in DocIds, content \in Texts, metadata \in Metas :
            IndexCreate(t, content, metadata) /\ Sequential'
    \/ \E t \in DocIds : IndexParse(t) /\ Sequential'
    \/ \E t \in DocIds, api_ok \in BOOLEAN : IndexEmbed(t, api_ok) /\ Sequential'
    \/ \E t \in DocIds, db_ok \in BOOLEAN : IndexStore(t, db_ok) /\ Sequential'
    \/ \E t \in DocIds : IndexMarkReady(t) /\ Sequential'
    \/ \E t \in DocIds : IndexHandleError(t) /\ Sequential'
    \/ \E t \in DocIds : IndexCrash(t) /\ Sequential'
    \/ \E d \in DocIds \cup {NoSuchDoc} : DeleteBegin(d) /\ Sequential'
    \/ DeleteCommit /\ Sequential'
    \/ DeleteInterrupt /\ Sequential'

SpecSeq == Init /\ [][NextSeq]_vars

\* The chat service alone, its stream_chat calls interleaved.
NextChat ==
    \/ \E u \in TurnIds, message \in UserMessages, db_ok \in BOOLEAN :
            ChatSaveUser(u, message, db_ok)
    \/ \E u \in TurnIds, db_ok \in BOOLEAN : ChatLoadHistory(u, db_ok)
    \/ \E u \in TurnIds, api_ok \in BOOLEAN, response \in Responses :
            ChatFirstCall(u, api_ok, response)
    \/ \E u \in TurnIds, search_ok \in BOOLEAN : ChatToolRound(u, search_ok)
    \/ \E u \in TurnIds, api_ok \in BOOLEAN, response \in Responses :
            ChatReinvoke(u, api_ok, response)
    \/ \E u \in TurnIds : ChatEmitText(u)
    \/ \E u \in TurnIds, db_ok \in BOOLEAN : ChatSaveAssistant(u, db_ok)
    \/ \E u \in TurnIds, db_ok \in BOOLEAN : ChatTitleRead(u, db_ok)
    \/ \E u \in TurnIds, db_ok \in BOOLEAN : ChatTitleCommit(u, db_ok)

SpecChat == Init /\ [][NextChat]_vars

\* The turns of the conversation handled one at a time: a stream_chat call
\* starts only when no other one is in progress.
SequentialChat ==
    Cardinality({u \in TurnIds :
                    turns[u].pc \notin {"idle", "done", "failed", "raised"}}) <= 1

NextChatSeq ==
    \/ \E u \in TurnIds, message \in UserMessages, db_ok \in BOOLEAN :
            ChatSaveUser(u, message, db_ok) /\ SequentialChat'
    \/ \E u \in TurnIds, db_ok \in BOOLEAN : ChatLoadHistory(u, db_ok)
    \/ \E u \in TurnIds, api_ok \in BOOLEAN, response \in Responses :
            ChatFirstCall(u, api_ok, response)
    \/ \E u \in TurnIds, search_ok \in BOOLEAN : ChatToolRound(u, search_ok)
    \/ \E u \in TurnIds, api_ok \in BOOLEAN, response \in Responses :
            ChatReinvoke(u, api_ok, response)
    \/ \E u \in TurnIds : ChatEmitText(u)
    \/ \E u \in TurnIds, db_ok \in BOOLEAN : ChatSaveAssistant(u, db_ok)
    \/ \E u \in TurnIds, db_ok \in BOOLEAN : ChatTitleRead(u, db_ok)
    \/ \E u \in TurnIds, db_ok \in BOOLEAN : ChatTitleCommit(u, db_ok)

SpecChatSeq == Init /\ [][NextChatSeq]_vars

\* A parser called once, with any text and any parameters.
NextChunk ==
    \/ \E content \in ChunkTexts, size \in ChunkSizes, overlap \in ChunkOverlaps :
            ParseCall(content, size, overlap)
    \/ \E text \in ChunkTexts, size \in ChunkSizes, overlap \in ChunkOverlaps :
            ChunkTextCall(text, size, overlap)
    \/ ChunkLoop

SpecChunk == Init /\ [][NextChunk]_vars

\* A search on any chunks table.
NextSearch ==
    \E rows \in SearchStores, q \in Vectors, top_k \in 1..MaxTopK,
       filter_metadata \in Filters :
            StoreSearch(rows, q, top_k, filter_metadata)

SpecSearch == Init /\ [][NextSearch]_vars

\* The loop of _chunk_text comes to an end for this content and these
\* parameters (text.py:57-61: start moves by chunk_size - chunk_overlap).
ParseEnds(content, size, overlap) ==
    \/ Len(Strip(content)) <= size
    \/ Strip(content) = <<>>
    \/ size - overlap > 0

\* The knowledge calls one at a time, under any settings; a parse whose loop
\* does not end takes no further step.
NextConfig ==
    \/ \E t \in DocIds, content \in Texts, metadata \in Metas :
            IndexCreate(t, content, metadata) /\ Sequential'
    \/ \E t \in DocIds :
            /\ tasks[t].pc = "parse"
            /\ ParseEnds(tasks[t].content, chunk_size, chunk_overlap)
            /\ IndexParse(t) /\ Sequential'
    \/ \E t \in DocIds, api_ok \in BOOLEAN : IndexEmbed(t, api_ok) /\ Sequential'
    \/ \E t \in DocIds, db_ok \in BOOLEAN : IndexStore(t, db_ok) /\ Sequential'
    \/ \E t \in DocIds : IndexMarkReady(t) /\ Sequential'
    \/ \E t \in DocIds : IndexHandleError(t) /\ Sequential'
    \/ \E t \in DocIds : IndexCrash(t) /\ Sequential'
    \/ \E d \in DocIds \cup {NoSuchDoc} : DeleteBegin(d) /\ Sequential'
    \/ DeleteCommit /\ Sequential'
    \/ DeleteInterrupt /\ Sequential'

SpecConfig == InitConfig /\ [][NextConfig]_vars

\* add called directly, on a database where index_document calls have
\* created their documents.
NextAdd ==
    \/ \E t \in DocIds : IndexCreate(t, <<"a">>, EmptyDict)
    \/ \E ids \in AddIds, documents_ \in AddContents, embeddings \in AddEmbeddings,
          metadatas \in AddMetadatas, db_ok \in BOOLEAN :
            StoreAdd(ids, documents_, embeddings, metadatas, db_ok)

SpecAdd == Init /\ [][NextAdd]_vars

NextEmbed ==
    \/ \E texts \in BatchTexts : EmbedBatchCall(texts)
    \/ \E api_ok \in BOOLEAN : EmbedCallApi(api_ok)

SpecEmbed == Init /\ [][NextEmbed]_vars

\* SearchService.search called once, on any chunks table.
NextService ==
    \/ /\ ss.pc = "idle"
       /\ \E query \in Queries, rows \in SearchStores, top_k \in 1..MaxTopK,
             filter_metadata \in Filters :
                ServiceSearchCall(query, rows, top_k, filter_metadata)
    \/ \E q \in Vectors : ServiceSearchEmbed(q)
    \/ ServiceSearchStore

SpecService == Init /\ [][NextService]_vars

\* MarkdownParser.parse called once.
NextMarkdown ==
    \/ /\ mp.pc = "idle"
       /\ \E content \in MdDocuments, sv \in MdSizes :
                MarkdownParseCall(content, sv[1], sv[2])
    \/ MarkdownChunkSection

SpecMarkdown == Init /\ [][NextMarkdown]_vars

\* One LocalEmbeddingProvider and the calls made on it, each call one step
\* of the event loop.
NextLocal ==
    \/ \E blank, import_ok \in BOOLEAN : LocalEmbed(blank, import_ok)
    \/ \E blank, import_ok \in BOOLEAN : LocalEmbedBatch(blank, import_ok)
    \/ \E import_ok \in BOOLEAN : LocalDimension(import_ok)

SpecLocal == Init /\ [][NextLocal]_vars

\* ================================================================ claims
Succeeded(t) == tasks[t].pc = "returned" /\ tasks[t].result.success

\* The chunk rows an index_document call for document t wrote: their ids are
\* "{t}_{index}".
RowsOf(t) == {c \in chunks : c.id[1] = t}

\* The chunk rows whose doc_id column is d.
RowsWithDocId(d) == {c \in chunks : c.doc_id = d}

\* C1 as stated: every index_document call that succeeds has committed, for
\* its document, exactly the statuses uploading, parsing, indexing, ready in
\* that order, and the chunk_count it commits is the number of chunks it
\* stored.
C1_StatusSequenceFromUploading ==
    \A t \in DocIds :
        Succeeded(t) =>
            /\ hist[t] = <<"uploading", "parsing", "indexing", "ready">>
            /\ tasks[t].result.chunks_count = tasks[t].stored

\* C1 amended: every index_document call that succeeds has committed, for its
\* document, exactly the statuses parsing, indexing, ready in that order (the
\* row is created in parsing; uploading is never committed), and the
\* chunk_count it commits and returns is the number of chunk rows its add
\* stored.
C1_StatusSequence ==
    \A t \in DocIds :
        Succeeded(t) =>
            /\ hist[t] = <<"parsing", "indexing", "ready">>
            /\ tasks[t].result.chunks_count = tasks[t].stored
            /\ tasks[t].stored >= 1
            /\ Exists(t) =>
                  /\ documents[t].status = "ready"
                  /\ documents[t].chunk_count = tasks[t].stored

C1_Witness ==
    \E t \in DocIds :
        Succeeded(t) /\ tasks[t].stored >= 2 /\ Exists(t) /\ Cardinality(RowsOf(t)) >= 2

Terminal == {"ready", "error"}

\* C3: under every interleaving of index_document and delete_document calls,
\* once a document's committed status is ready or error, no step changes the
\* status of that row.
C3_TerminalStatusKept ==
    [][\A d \in DocIds :
          (Exists(d) /\ documents[d].status \in Terminal /\ d \in DOMAIN documents')
              => documents'[d].status = documents[d].status]_vars

\* A ready document and an error document, while another call is in progress.
C3_Witness ==
    /\ \E d \in DocIds : Exists(d) /\ documents[d].status = "ready"
    /\ \E d \in DocIds : Exists(d) /\ documents[d].status = "error"
    /\ del.pc = "chunks_deleted"

\* C4: for every document whose status is ready, chunk_count is the number of
\* chunk rows whose doc_id column is that document's id.
C4_ReadyCountMatchesRows ==
    \A d \in DOMAIN documents :
        documents[d].status = "ready" =>
            documents[d].chunk_count = Cardinality(RowsWithDocId(d))

\* C5 as stated: index_document on empty or whitespace-only content returns
\* the failure result without raising, commits status error with the message
\* "no content to index", and calls neither embed_batch nor add.
C5_EmptyParseLowerCaseMessage ==
    [][\A t \in DocIds :
          (/\ tasks[t].pc = "parse"
           /\ Strip(tasks[t].content) = <<>>
           /\ tasks'[t].pc \notin {"parse", "crashed"})
              => /\ tasks'[t].pc = "returned"
                 /\ ~tasks'[t].result.success
                 /\ tasks'[t].result.chunks_count = 0
                 /\ documents'[t].status = "error"
                 /\ documents'[t].error_message = "no content to index"]_vars

\* C5 amended: handled on its own, index_document on empty or whitespace-only
\* content returns the failure result (success false, chunks_count 0)
\* without raising, commits status error with the message
\* "No content to index", and calls neither embed_batch nor add, then or
\* later.
C5_EmptyParse ==
    /\ [][\A t \in DocIds :
            (/\ tasks[t].pc = "parse"
             /\ Strip(tasks[t].content) = <<>>
             /\ tasks'[t].pc \notin {"parse", "crashed"})
                => /\ tasks'[t].pc = "returned"
                   /\ tasks'[t].result = IndexResult(FALSE, t, 0, "No content to index")
                   /\ documents'[t].status = "error"
                   /\ documents'[t].error_message = "No content to index"
                   /\ hist'[t] = <<"parsing", "error">>]_vars
    /\ [](\A t \in DocIds :
            (tasks[t].pc = "returned" /\ ~tasks[t].result.success)
                => /\ tasks[t].embed_calls = 0
                   /\ tasks[t].add_calls = 0
                   /\ RowsOf(t) = {})

C5_Witness ==
    \E t \in DocIds :
        /\ tasks[t].pc = "returned" /\ ~tasks[t].result.success
        /\ Exists(t) /\ documents[t].error_message = NoContentMsg

\* C6: in every reachable state, crashes included, the chunk rows of a
\* document exist only while its committed status is indexing or ready, and a
\* ready document has all of its chunks stored; embed_batch is invoked only
\* after indexing is committed and ready is committed only after add.
C6_ChunksOnlyWhenIndexingOrReady ==
    /\ \A c \in chunks :
          Exists(c.doc_id) /\ documents[c.doc_id].status \in {"indexing", "ready"}
    /\ \A d \in DOMAIN documents :
          documents[d].status = "ready" =>
              Cardinality(RowsWithDocId(d)) = documents[d].chunk_count
    /\ \A t \in DocIds :
          /\ tasks[t].embed_calls > 0 => \E i \in DOMAIN hist[t] : hist[t][i] = "indexing"
          /\ (\E i \in DOMAIN hist[t] : hist[t][i] = "ready") => tasks[t].stored > 0

\* The step that commits delete_by_doc_id.
DeleteCommitted == del.pc = "chunks_deleted" /\ del'.returned # None

\* C7 as stated: delete_by_document(d) removes exactly the chunk rows whose
\* doc_id is d and the document row d, leaves the other rows unchanged, and
\* lowers count() by d's prior chunk_count, whatever d's status.
C7_CountLoweredByChunkCount ==
    [][DeleteCommitted =>
          LET d == del.doc_id
          IN /\ chunks' = {c \in chunks : c.doc_id # d}
             /\ DOMAIN documents' = (DOMAIN documents) \ {d}
             /\ \A x \in DOMAIN documents' : documents'[x] = documents[x]
             /\ Cardinality(chunks') =
                    count - (IF Exists(d) THEN documents[d].chunk_count ELSE 0)]_vars

\* C7 amended: delete_by_document(d) removes exactly the chunk rows whose
\* doc_id is d and the document row d, leaves the other rows unchanged, and
\* lowers count() by the number of chunk rows whose doc_id is d, whatever d's
\* status.
C7_DeleteFrame ==
    [][DeleteCommitted =>
          LET d == del.doc_id
          IN /\ chunks' = {c \in chunks : c.doc_id # d}
             /\ DOMAIN documents' = (DOMAIN documents) \ {d}
             /\ \A x \in DOMAIN documents' : documents'[x] = documents[x]
             /\ Cardinality(chunks') = count - Cardinality(RowsWithDocId(d))]_vars

\* A document deleted with its rows while another document keeps its own.
C7_Witness ==
    /\ del.returned = "True"
    /\ \E d \in DocIds :
          /\ tasks[d].stored > 0 /\ ~Exists(d) /\ RowsOf(d) = {}
          /\ \E x \in DocIds : x # d /\ Exists(x) /\ RowsWithDocId(x) # {}

\* C8: every chunk row's doc_id is the id of an existing document row, under
\* every interleaving of delete_document with index_document and when the
\* delete is interrupted before its commit.
C8_NoOrphanChunks == \A c \in chunks : Exists(c.doc_id)

\* An index_document call whose document was deleted under it before its add.
C8_Witness ==
    \E t \in DocIds :
        tasks[t].raised_by = "add" /\ tasks[t].exc = ForeignKeyMsg /\ ~Exists(t)

\* C9: delete_document with an id that matches no document returns False,
\* which the route answers with 404, and changes no row.
C9_UnknownIdNotFound ==
    [][(DeleteCommitted /\ ~Exists(del.doc_id)) =>
          /\ del'.returned = "False"
          /\ del'.http = 404
          /\ UNCHANGED <<documents, chunks>>]_vars

\* ------------------------------------------------------------------- C10
IsTextEvent(e) == e.type = "text"

\* The texts of the text events of a turn, in the order emitted.
TextsEmitted(u) ==
    LET sel == SelectSeq(turns[u].events, IsTextEvent)
    IN [i \in 1..Len(sel) |-> sel[i].text]

IsTextBlock(b) == b \in TextBlocks

\* The events of a turn that ended with done after k tool rounds: k source
\* events, the i-th emitted when the model had been called i times, then
\* n text events, then the done event.
EventsAre(u, k, n) ==
    LET ev == turns[u].events
    IN /\ Len(ev) = k + n + 1
       /\ \A i \in 1..k : ev[i].type = "source" /\ ev[i].calls = i
       /\ \A i \in (k + 1)..(k + n) : ev[i].type = "text"
       /\ ev[k + n + 1].type = "done"
       /\ turns[u].calls = k + 1

\* C10 as stated: a chat turn that goes through k >= 0 tool rounds and then
\* completes without failure emits k source events (each before the model is
\* re-invoked for its round), then one or more text events, then one done
\* event, and nothing else.
C10_OneOrMoreTextEvents ==
    \A u \in TurnIds :
        turns[u].pc = "done" =>
            /\ EventsAre(u, turns[u].rounds, Len(TextsEmitted(u)))
            /\ Len(TextsEmitted(u)) >= 1

\* C10, corrected: a chat turn that goes through k >= 0 tool rounds and then
\* completes without failure emits k source events (each before the model is
\* re-invoked for its round), then one text event per text block of the final
\* response, in the order of the blocks (none when the final response has no
\* text block), then one done event, and nothing else; no error event is
\* emitted and no text event precedes a source event.
C10_EventOrder ==
    \A u \in TurnIds :
        /\ turns[u].pc = "text" =>
                TextsEmitted(u) =
                    SelectSeq(SubSeq(turns[u].response.content,
                                     1, turns[u].next_block - 1), IsTextBlock)
        /\ turns[u].pc = "done" =>
                /\ TextsEmitted(u) = turns[u].full_response
                /\ EventsAre(u, turns[u].rounds, Len(TextsEmitted(u)))

\* A turn with one tool round has emitted [source, text, text, done].
C10_Witness ==
    \E u \in TurnIds :
        /\ turns[u].pc = "done"
        /\ turns[u].rounds = 1
        /\ Len(turns[u].events) = 4
        /\ turns[u].events[1].type = "source"
        /\ turns[u].events[2].type = "text"
        /\ turns[u].events[3].type = "text"
        /\ turns[u].events[4].type = "done"

\* ------------------------------------------------------------------- C11
\* The rows of the messages table that turn u wrote with the given role.
RowsOfTurn(u, role) == {i \in 1..Len(messages) : messages[i].id = <<u, role>>}

EventsOfType(u, type) ==
    {i \in 1..Len(turns[u].events) : turns[u].events[i].type = type}

\* A call of the turn raised an exception.
Raised(u) == turns[u].pc \in {"raised", "failed"}

\* C11: when an exception is raised at any point of a chat turn (saving the
\* user message, loading history, a model call, the search, saving the
\* assistant message, title generation), the stream ends with exactly one
\* error event, no done event is emitted, and no assistant row is persisted
\* for the turn; an exception raised by the search of the first tool round
\* gives the events [error] only.
C11_ExceptionEndsWithOneError ==
    \A u \in TurnIds :
        Raised(u) =>
            LET ev == turns[u].events
            IN /\ ev # <<>>
               /\ ev[Len(ev)].type = "error"
               /\ Cardinality(EventsOfType(u, "error")) = 1
               /\ EventsOfType(u, "done") = {}
               /\ RowsOfTurn(u, "assistant") = {}
               /\ (turns[u].raised_at = "search" /\ turns[u].rounds = 0
                        => Len(ev) = 1)

\* ------------------------------------------------------------------- C12
RECURSIVE SumInput(_)
SumInput(usages) ==
    IF usages = <<>> THEN 0 ELSE Head(usages).input_tokens + SumInput(Tail(usages))

RECURSIVE SumOutput(_)
SumOutput(usages) ==
    IF usages = <<>> THEN 0 ELSE Head(usages).output_tokens + SumOutput(Tail(usages))

\* C12: after a chat turn that ended with done and went through k tool
\* rounds, the conversation has exactly one user row and exactly one assistant
\* row of that turn and no other row of it; the assistant row's input_tokens
\* and output_tokens are the sums of the usage of the k + 1 model calls, and
\* its content is the concatenation of the turn's text events.
C12_RowsOfCompletedTurn ==
    \A u \in TurnIds :
        turns[u].pc = "done" =>
            /\ Cardinality(RowsOfTurn(u, "user")) = 1
            /\ Cardinality(RowsOfTurn(u, "assistant")) = 1
            /\ Cardinality({i \in 1..Len(messages) : messages[i].id[1] = u}) = 2
            /\ Len(turns[u].usages) = turns[u].rounds + 1
            /\ \A i \in RowsOfTurn(u, "user") :
                    messages[i].role = "user" /\ messages[i].content = turns[u].message
            /\ \A i \in RowsOfTurn(u, "assistant") :
                    /\ messages[i].role = "assistant"
                    /\ messages[i].input_tokens = SumInput(turns[u].usages)
                    /\ messages[i].output_tokens = SumOutput(turns[u].usages)
                    /\ messages[i].content = TextsEmitted(u)

\* A completed turn of two tool rounds (three model calls) and two text
\* events, with its assistant row.
C12_Witness ==
    \E u \in TurnIds :
        /\ turns[u].pc = "done"
        /\ turns[u].rounds = 2
        /\ Len(TextsEmitted(u)) = 2
        /\ \E i \in RowsOfTurn(u, "assistant") : messages[i].input_tokens = 3

\* ------------------------------------------------------------------- C13
\* C13: once the conversation's title is set (non-empty), no step of any chat
\* turn changes it, whatever the interleaving of the stream_chat calls on the
\* conversation; and a title set from a first message of more than 50
\* characters is the message's first 50 characters followed by the ellipsis.
C13_TitleNeverOverwritten ==
    [][/\ ~NoTitle(title) => title' = title
       /\ \A u \in TurnIds :
            (/\ turns[u].pc = "title_commit"
             /\ turns'[u].pc = "done"
             /\ Len(turns[u].message) > TitleLimit)
                => title' = SubSeq(turns[u].message, 1, TitleLimit) \o Ellipsis]_vars

\* ------------------------------------------------------------------- C14
\* A parse of a text that is not blank and is no longer than the chunk size
\* has returned.
ShortParseReturned ==
    /\ ck.pc = "returned"
    /\ ck.entry = "parse"
    /\ Strip(ck.content) # <<>>
    /\ Len(ck.content) <= ck.chunk_size

\* C14 as stated: for every text T that is not empty or whitespace-only and
\* has len(T) <= S, plain-text chunking yields exactly one chunk, of index 0,
\* whose content is T.
C14_OneChunkEqualToText == ShortParseReturned => ck.chunks = <<ck.content>>

\* C14, corrected: for every text T that is not empty or whitespace-only and
\* has len(T) <= S, plain-text chunking yields exactly one chunk, of index 0,
\* whose content is T without its leading and trailing whitespace.
C14_OneChunkEqualToStrippedText ==
    ShortParseReturned => ck.chunks = <<Strip(ck.content)>>

\* A short text with whitespace around it has been parsed.
C14_Witness ==
    /\ ShortParseReturned
    /\ Strip(ck.content) # ck.content
    /\ Len(ck.chunks) = 1

\* ------------------------------------------------------------------- C15
FirstN(text, n) == SubSeq(text, 1, n)
LastN(text, n) == SubSeq(text, Len(text) - n + 1, Len(text))

\* Chunk 0 followed by every later chunk without its first v characters.
RECURSIVE Rejoin(_, _)
Rejoin(parts, v) ==
    IF Len(parts) <= 1 THEN (IF parts = <<>> THEN <<>> ELSE parts[1])
    ELSE Rejoin(SubSeq(parts, 1, Len(parts) - 1), v)
            \o SubSeq(parts[Len(parts)], v + 1, Len(parts[Len(parts)]))

\* C15: for every text T with len(T) > S and every 0 <= V < S, the last V
\* characters of each chunk of the plain-text chunker are the first V
\* characters of the next chunk (the final chunk included), and chunk 0
\* followed by every later chunk minus its first V characters is T.
C15_OverlapExactlyV ==
    (/\ ck.pc = "returned"
     /\ Len(ck.text) > ck.chunk_size
     /\ 0 <= ck.chunk_overlap
     /\ ck.chunk_overlap < ck.chunk_size)
        => /\ \A i \in 1..(Len(ck.chunks) - 1) :
                /\ Len(ck.chunks[i]) >= ck.chunk_overlap
                /\ Len(ck.chunks[i + 1]) >= ck.chunk_overlap
                /\ LastN(ck.chunks[i], ck.chunk_overlap)
                        = FirstN(ck.chunks[i + 1], ck.chunk_overlap)
           /\ Rejoin(ck.chunks, ck.chunk_overlap) = ck.text

\* ------------------------------------------------------------------- C16
\* C16: chunking terminates for every text and every pair (S, V) of a
\* positive size and a non-negative overlap: an overlap V >= S is rejected or
\* clamped before the loop runs, and every iteration of the loop moves its
\* start forward.
C16_ChunkingTerminates ==
    [][(ck'.chunk_size >= 1 /\ ck'.chunk_overlap >= 0 /\ ck'.pc = "loop")
            => /\ ck'.chunk_overlap < ck'.chunk_size
               /\ ck.pc = "loop" => ck'.start > ck.start]_vars

\* ------------------------------------------------------------------- C17
\* The returned results: at most top_k of them, nearest first and so by
\* non-increasing score, each score being 1 - cosine distance to within half
\* a unit of the fourth decimal.
RankedByScore ==
    LET res == sr.results
    IN /\ Len(res) <= sr.top_k
       /\ \A i, j \in 1..Len(res) :
            i < j => /\ NotFarther(sr.query, res[i].id.embedding, res[j].id.embedding)
                     /\ res[i].score >= res[j].score
       /\ \A i \in 1..Len(res) :
            LET v == res[i].id.embedding
                exact == ScoreUnit * Dot(sr.query, v)
                given == res[i].score * (sr.query.norm * v.norm)
            IN /\ 2 * (exact - given) <= sr.query.norm * v.norm
               /\ 2 * (given - exact) <= sr.query.norm * v.norm

\* C17 as stated: search returns at most top_k results ordered nearest first,
\* by non-increasing score = round(1 - cosine distance, 4), and every score
\* lies in [0, 1], for every set of stored vectors and every query vector.
C17_ScoresInUnitInterval ==
    sr.pc = "returned" =>
        /\ RankedByScore
        /\ \A i \in 1..Len(sr.results) :
                0 <= sr.results[i].score /\ sr.results[i].score <= ScoreUnit

\* The part of C17 the code keeps: at most top_k results ordered nearest
\* first, by non-increasing score = round(1 - cosine distance, 4); the scores
\* range over [-1, 1], as the cosine distance ranges over [0, 2].
C17_ScoresRanked ==
    sr.pc = "returned" =>
        /\ RankedByScore
        /\ \A i \in 1..Len(sr.results) :
                (0 - ScoreUnit) <= sr.results[i].score
                    /\ sr.results[i].score <= ScoreUnit

\* A search over three rows cut to two results of different scores, the
\* second one negative.
C17_Witness ==
    /\ sr.pc = "returned"
    /\ Cardinality(sr.rows) = 3
    /\ Len(sr.results) = 2
    /\ sr.results[1].score > sr.results[2].score
    /\ sr.results[2].score < 0

\* ------------------------------------------------------------------- C18
\* The value a stored row has under a metadata key.
RowValue(row, key) == IF key = "doc_id" THEN row.doc_id ELSE row.source

Matching(rows, filter_metadata) ==
    {r \in rows : \A k \in DOMAIN filter_metadata :
                        RowValue(r, k) = filter_metadata[k]}

\* C18: with an exact-match metadata filter, whatever its key, every result
\* matches the filter on every key given, and the results are the top_k
\* nearest among the matching rows (the filter is applied before the ranking
\* and the cut).
C18_FilterNarrowsCandidates ==
    sr.pc = "returned" =>
        LET match == Matching(sr.rows, sr.filter_metadata)
            got == {sr.results[i].id : i \in 1..Len(sr.results)}
        IN /\ got \subseteq match
           /\ Len(sr.results) = Min(sr.top_k, Cardinality(match))
           /\ \A r \in match \ got : \A g \in got :
                    NotFarther(sr.query, g.embedding, r.embedding)

\* ------------------------------------------------------------------- C19
\* The arrays of the last add call are not all of the same length.
UnequalLengths(call) ==
    \E n \in {Len(call.documents), Len(call.embeddings), Len(call.metadatas)} :
        n # Len(call.ids)

\* C19: an add call whose ids, contents, vectors and metadatas are not all
\* of the same length, or whose ids contain a duplicate, is rejected with an
\* error and stores no row: the set of Chunk rows is unchanged.
C19_InvalidAddRejected ==
    [][(/\ ad'.calls = ad.calls + 1
        /\ \/ UnequalLengths(ad')
           \/ \E i, j \in 1..Len(ad'.ids) : i # j /\ ad'.ids[i] = ad'.ids[j])
            => (ad'.error # None /\ chunks' = chunks)]_vars

\* ------------------------------------------------------------------- C20
IsBlankEntry(t) == \A i \in 1..Len(t) : t[i] \in Whitespace

\* The entries of texts that are not blank, in their order.
RECURSIVE Remaining(_)
Remaining(texts) ==
    IF texts = <<>> THEN <<>>
    ELSE IF IsBlankEntry(Head(texts)) THEN Remaining(Tail(texts))
    ELSE <<Head(texts)>> \o Remaining(Tail(texts))

\* C20: embed_batch returns an empty list without calling the API when its
\* input is empty or holds only empty or whitespace entries; otherwise it
\* drops the blank entries, makes exactly one batched call, with no retry
\* when that call fails, and returns one vector per remaining entry, in the
\* order of those entries.
C20_EmbedBatch ==
    eb.pc \in {"returned", "raised"} =>
        LET rest == Remaining(eb.texts)
        IN IF rest = <<>>
           THEN eb.pc = "returned" /\ eb.result = <<>> /\ eb.api_calls = 0
           ELSE /\ eb.api_calls = 1
                /\ eb.pc = "returned" =>
                    /\ Len(eb.result) = Len(rest)
                    /\ \A i \in 1..Len(rest) :
                            eb.result[i] = Vector(Strip(rest[i]))

\* A batch with a blank entry between two others, embedded in one call.
C20_Witness ==
    /\ eb.pc = "returned"
    /\ eb.texts = << <<" ", "b">>, <<" ">>, <<"a">> >>
    /\ eb.result = << Vector(<<"b">>), Vector(<<"a">>) >>
    /\ eb.api_calls = 1

\* ------------------------------------------------------------------- C21
\* C21: search sets each result's source to the source of the stored chunk,
\* and to "unknown" when the stored chunk has no source; a blank query
\* returns an empty list without any embedding or store call.
C21_SourceOrUnknown ==
    ss.pc = "returned" =>
        IF ss.query = <<>> \/ IsBlankEntry(ss.query)
        THEN ss.results = <<>> /\ ss.embed_calls = 0 /\ ss.store_calls = 0
        ELSE /\ Len(ss.results) = Len(ss.found)
             /\ \A i \in 1..Len(ss.results) :
                    ss.results[i].source =
                        IF ss.found[i].id.source = None THEN "unknown"
                        ELSE ss.found[i].id.source

\* ------------------------------------------------------------------- C22
\* The number of k = 0, 1, 2, ... with k * step < n.
StepsBelow(n, step) == (n + step - 1) \div step

\* The slices T[k*(S-V) : k*(S-V)+S] for k = 0, 1, ... while k*(S-V) < len(T).
ExpectedSlices(T, S, V) ==
    [k \in 1..StepsBelow(Len(T), S - V) |->
        Slice(T, (k - 1) * (S - V), (k - 1) * (S - V) + S)]

ExampleText == [i \in 1..1200 |-> "A"]

\* C22: for len(T) > S and 0 <= V < S the plain-text chunker emits, in
\* order, exactly the slices T[k*(S-V) : k*(S-V)+S] for k = 0, 1, 2, ...
\* while k*(S-V) < len(T), the last one possibly shorter, and nothing else;
\* 1200 characters with S = 500 and V = 50 give the three chunks [0:500],
\* [450:950], [900:1200].
C22_ExactSlices ==
    /\ (ck.pc = "returned" /\ Len(ck.text) > ck.chunk_size
            /\ 0 <= ck.chunk_overlap /\ ck.chunk_overlap < ck.chunk_size)
        => ck.chunks = ExpectedSlices(ck.text, ck.chunk_size, ck.chunk_overlap)
    /\ ck.pc = "idle" =>
        chunk_text(ExampleText, 500, 50) =
            << Slice(ExampleText, 0, 500), Slice(ExampleText, 450, 950),
               Slice(ExampleText, 900, 1200) >>

\* A text of four characters cut with S = 3 and V = 1: two chunks, the last
\* one shorter.
C22_Witness ==
    /\ ck.pc = "returned"
    /\ ck.text = <<"a", "b", "a", "b">>
    /\ ck.chunk_size = 3 /\ ck.chunk_overlap = 1
    /\ ck.chunks = << <<"a", "b", "a">>, <<"a", "b">> >>

\* ------------------------------------------------------------------- C23
\* The chunks a step has appended for the section it has chunked.
NewChunks == SubSeq(mp'.chunks, Len(mp.chunks) + 1, Len(mp'.chunks))

\* C23: for every section that has a non-empty header, the first sub-chunk
\* of the section has the header text prepended, whether the section fits in
\* one chunk or is split into several; no later sub-chunk gets the header.
C23_HeaderOnFirstSubChunk ==
    [][(mp.pc = "sections" /\ mp'.done = mp.done + 1
            /\ mp.sections[mp'.done].header # <<>>)
        => LET section == mp.sections[mp'.done]
               S == mp.chunk_size
               step == mp.chunk_size - mp.chunk_overlap
           IN /\ NewChunks # <<>>
              /\ NewChunks[1].content =
                    WithHeader(section.header, Slice(section.content, 0, S))
              /\ \A i \in 2..Len(NewChunks) :
                    NewChunks[i].content =
                        Slice(section.content, (i - 1) * step,
                              (i - 1) * step + S)]_vars

\* ------------------------------------------------------------------- C24
\* The lines of a text.
RECURSIVE LinesOf(_)
LinesOf(text) ==
    LET e == LineEnd(text, 0)
    IN IF e >= Len(text) THEN <<text>>
       ELSE <<SubSeq(text, 1, e)>> \o LinesOf(SubSeq(text, e + 2, Len(text)))

RECURSIVE LeadingHashes(_)
LeadingHashes(line) ==
    IF line # <<>> /\ Head(line) = "#" THEN 1 + LeadingHashes(Tail(line)) ELSE 0

\* A header line of level 2 to 6: the "#"s, a space, and a text.
IsHeaderLine(line) ==
    LET h == LeadingHashes(line)
    IN /\ 2 <= h /\ h <= 6
       /\ Len(line) > h /\ line[h + 1] = " "
       /\ Strip(SubSeq(line, h + 1, Len(line))) # <<>>

HeaderLineText(line) ==
    LStrip(SubSeq(line, LeadingHashes(line) + 1, Len(line)))

\* The sections of the lines: each header line closes the section before it
\* and names the next one; a section that is empty once trimmed is dropped.
RECURSIVE SectionsOfLines(_, _, _)
SectionsOfLines(lines, header, body) ==
    LET closed == IF Strip(body) # <<>>
                  THEN <<[header |-> header, content |-> Strip(body)]>>
                  ELSE <<>>
    IN IF lines = <<>> THEN closed
       ELSE IF IsHeaderLine(Head(lines))
            THEN closed \o SectionsOfLines(Tail(lines),
                                           HeaderLineText(Head(lines)), <<>>)
            ELSE SectionsOfLines(Tail(lines), header,
                                 body \o Head(lines) \o <<"\n">>)

\* The tag of every chunk of the sections, in order.
RECURSIVE TagsOf(_, _, _)
TagsOf(sections, size, overlap) ==
    IF sections = <<>> THEN <<>>
    ELSE [i \in 1..Len(chunk_section(Head(sections), size, overlap)) |->
                Head(sections).header]
         \o TagsOf(Tail(sections), size, overlap)

\* C24: header-aware parse tags every chunk with the text of the most recent
\* level-2-to-6 header that precedes its section (the empty string before
\* the first header, or when the document has no headers), and emits no
\* chunk for a section that is empty after trimming, including for a
\* document that consists only of header lines.
C24_ChunksTaggedBySection ==
    (mp.pc = "returned" /\ Strip(mp.content) # <<>>) =>
        [i \in 1..Len(mp.chunks) |-> mp.chunks[i].metadata["section"]]
            = TagsOf(SectionsOfLines(LinesOf(Strip(mp.content)), <<>>, <<>>),
                     mp.chunk_size, mp.chunk_overlap)

\* ------------------------------------------------------------------- C25
\* The rows the index_document call of document d has stored.
RowsStoredFor(d) == {c \in chunks : c.id[1] = d}

\* C25: after a successful index_document the stored Chunk rows of the
\* document have chunk_index values that form exactly the contiguous range
\* [0, chunk_count), each row having id {doc_id}_{chunk_index}, for every
\* caller-supplied metadata map.
C25_ContiguousChunkIndex ==
    \A d \in DOMAIN documents :
        documents[d].status = "ready" =>
            /\ {c.chunk_index : c \in RowsStoredFor(d)} =
                    0..(documents[d].chunk_count - 1)
            /\ \A c \in RowsStoredFor(d) : c.id = <<d, c.chunk_index>>

\* ------------------------------------------------------------------- C26
HasEvent(u, type) ==
    \E i \in 1..Len(turns[u].events) : turns[u].events[i].type = type

\* C26: the tool-call loop has no iteration cap.  A turn in the loop that
\* gets a tool_use answer runs one more round, with one source event per
\* round and no done event; it leaves the loop only when the model returns
\* a stop reason other than tool_use or when a call fails.
C26_NoIterationCap ==
    [][\A u \in TurnIds :
        (turns'[u] # turns[u] /\ turns[u].pc \in {"call", "search", "reinvoke"})
        => \/ /\ turns'[u].pc \in {"search", "reinvoke"}
              /\ Cardinality(EventsOfType(u, "source"))' = turns'[u].rounds
              /\ ~HasEvent(u, "done")' /\ ~HasEvent(u, "error")'
           \/ /\ turns'[u].pc = "text"
              /\ turns'[u].response.stop_reason # "tool_use"
              /\ turns'[u].response.stop_reason # None
           \/ /\ turns'[u].pc = "failed"
              /\ turns'[u].raised_at \in {"create", "search", "next"}]_vars

\* A turn that has run every round the model asked for and is about to call
\* the model again, with no terminal event yet.
C26_Witness ==
    \E u \in TurnIds :
        /\ turns[u].pc = "reinvoke"
        /\ turns[u].rounds = MaxRounds
        /\ Cardinality(EventsOfType(u, "source")) = MaxRounds
        /\ ~HasEvent(u, "done") /\ ~HasEvent(u, "error")

\* ------------------------------------------------------------------- C27
\* C27: for one local embedding provider, under any sequence of embed,
\* embed_batch and dimension calls, the model is constructed at most once
\* and every later call reuses that same handle; a failed load is reported
\* as an error and is not retried within the call.
C27_ModelLoadedOnce ==
    /\ lm.constructed <= 1
    /\ \A i \in 1..Len(lm.log) :
        /\ lm.log[i].used # None =>
                lm.log[i].used = Handle(1) /\ lm.model = Handle(1)
        /\ lm.log[i].attempts <= 1
        /\ (lm.log[i].attempts = 1 /\ lm.log[i].used = None)
                => lm.log[i].error = "RuntimeError"

\* A load that failed, a later call that loaded the model, and a third call
\* that reused it.
C27_Witness ==
    /\ Len(lm.log) = 3
    /\ lm.log[1].error = "RuntimeError" /\ lm.log[1].attempts = 1
    /\ lm.log[2].used # None /\ lm.log[2].attempts = 1
    /\ lm.log[3].used # None /\ lm.log[3].attempts = 0
    /\ lm.log[3].used = lm.log[2].used
    /\ lm.log[3].call # lm.log[2].call
    /\ lm.constructed = 1

\* ------------------------------------------------------------------- C28
\* C28: non-positive chunk parameters (chunk size <= 0, or a negative
\* overlap) are rejected before any I/O: index_document configured with such
\* parameters creates no Document row, makes no embedding call and stores no
\* chunk.
C28_BadParametersRejected ==
    (chunk_size <= 0 \/ chunk_overlap < 0) =>
        /\ DOMAIN documents = {}
        /\ chunks = {}
        /\ \A t \in DocIds : tasks[t].embed_calls = 0

\* ------------------------------------------------------------------- C29
HasBlankChunk(parsed) == \E i \in 1..Len(parsed) : Strip(parsed[i]) = <<>>

\* C29: when index_document goes on to status ready, the stored row with id
\* {doc_id}_{i} holds the content of chunk i with the vector the embedding
\* provider returned for that content; when a chunk is whitespace-only and
\* embed_batch returns fewer vectors than there are chunks, the call ends in
\* error with no chunk stored.
C29_VectorsOnTheirOwnChunks ==
    [][/\ \A t \in DocIds :
            (tasks[t].pc = "store" /\ tasks'[t].pc # "store") =>
                LET parsed == tasks[t].parsed
                IN IF HasBlankChunk(parsed)
                   THEN chunks' = chunks /\ tasks'[t].pc # "ready"
                   ELSE tasks'[t].pc = "ready" =>
                        \A i \in 1..Len(parsed) :
                            \E c \in chunks' :
                                /\ c.id = <<t, i - 1>>
                                /\ c.content = parsed[i]
                                /\ c.embedding = Vector(Strip(parsed[i]))
       /\ \A c \in chunks' : c.embedding = Vector(Strip(c.content))]_vars

\* A ready document of two chunks, each stored with its own vector, and a
\* call whose whitespace-only chunk ended it in error on the short vectors.
C29_Witness ==
    \E d, e \in DOMAIN documents :
        /\ documents[d].status = "ready"
        /\ \E c1, c2 \in chunks :
            /\ c1.id = <<d, 0>> /\ c2.id = <<d, 1>>
            /\ c1.embedding = Vector(c1.content)
            /\ c2.embedding = Vector(c2.content)
        /\ documents[e].status = "error"
        /\ documents[e].error_message = IndexErrorMsg

\* ------------------------------------------------------------------- C30
\* user, assistant, user, assistant, ...
Alternates(roles) ==
    \A i \in 1..Len(roles) :
        roles[i] = IF i % 2 = 1 THEN "user" ELSE "assistant"

\* C30: with the turns handled one at a time, after any sequence of turns,
\* turns that ended in an error included, the persisted messages in creation
\* order alternate user, assistant, ...; the history sent to the model at the
\* start of a turn ends with exactly one unanswered user message.
C30_MessagesAlternate ==
    /\ (\A u \in TurnIds : turns[u].pc \in {"idle", "done", "failed", "raised"})
        => /\ Alternates([i \in 1..Len(messages) |-> messages[i].role])
           /\ Len(messages) % 2 = 0
    /\ \A u \in TurnIds :
        turns[u].pc = "call" =>
            Alternates(turns[u].history) /\ Len(turns[u].history) % 2 = 1

====
